---- MODULE Spec2Model ----
(***************************************************************************)
(* The DNS front end of the amalgam8 sidecar (sidecar/dns/server.go):      *)
(* handleRequest -> handleQuestion -> retrieveServices ->                  *)
(* createRecordsForInstances -> WriteMsg.                                  *)
(*                                                                         *)
(* A Go string is modelled as a record [us, body]: us leading underscores  *)
(* followed by the text body.  A domain name is the sequence of its label  *)
(* strings and dot characters, so that concatenation, Fqdn, IsDomainName   *)
(* and SplitDomainName are computed on the text and not assumed.           *)
(***************************************************************************)
EXTENDS Integers, Sequences, FiniteSets, TLC

\* ------------------------------------------------------------------ bounds
MaxQuestions == 2

\* ------------------------------------------------------------ Go strings
S(body) == [us |-> 0, body |-> body]
U(body) == [us |-> 1, body |-> body]
Dot == S(".")
Empty == S("")

\* strings.HasPrefix(s, "_")
HasPrefix(s) == s.us > 0
\* s[1:] of a string that starts with "_"
TrimFirst(s) == [us |-> s.us - 1, body |-> s.body]

Last(seq) == seq[Len(seq)]

RECURSIVE SelectLabels(_)
SelectLabels(name) ==
    IF name = <<>> THEN <<>>
    ELSE IF Head(name) = Dot THEN SelectLabels(Tail(name))
    ELSE <<Head(name)>> \o SelectLabels(Tail(name))

\* dns.Fqdn: append the root dot unless the name already ends in one
Fqdn(name) ==
    IF name # <<>> /\ Last(name) = Dot THEN name ELSE Append(name, Dot)

\* dns.IsDomainName: the name is made fully qualified, every dot closes one
\* label, two dots back to back are illegal; the root name "." counts one label
IsDomainName(name) ==
    IF name = <<>> THEN [labels |-> 0, ok |-> TRUE]
    ELSE LET s == Fqdn(name)
             dots == {i \in 1..Len(s) : s[i] = Dot}
         IN  [labels |-> Cardinality(dots),
              ok |-> \A i \in dots : i > 1 => s[i-1] # Dot]

\* dns.SplitDomainName: the labels of the name, nil for "" and "."
SplitDomainName(name) == SelectLabels(name)

\* ---------------------------------------------------------------- values
INET == "INET"
CHAOS == "CHAOS"
TypeA == "A"
TypeAAAA == "AAAA"
TypeSRV == "SRV"
TypeMX == "MX"
RcodeSuccess == "Success"
RcodeFormatError == "FormatError"
RcodeServerFailure == "ServerFailure"
RcodeNameError == "NameError"

Protocols == {S("tcp"), S("udp"), S("http"), S("https")}

\* ------------------------------------------------------- endpoint parsing
\* An endpoint value is the text  [scheme] ["["] host ["]"] [":" port].
\* host.form is how the host is written: "dotted4" (a.b.c.d), "colon6"
\* (an IPv6 literal) or "hostname"; host.bytes are the address bytes written.
\* port is the digit string after the colon: digits 0..9, NonDigit for any
\* other character.
NonDigit == 10
NoIP == <<>>
V4InV6Prefix == <<0, 0, 0, 0, 0, 0, 0, 0, 0, 0, 255, 255>>

\* net.ParseIP: nil unless the text is an IP literal; the result is 16 bytes.
\* (An unbracketed IPv6 literal followed by ":port" would parse as another
\* address; WellFormedValue keeps such values out of the catalog.)
ParseIP(text) ==
    IF text.bracket \/ text.colon THEN NoIP
    ELSE IF text.host.form = "dotted4" THEN V4InV6Prefix \o text.host.bytes
    ELSE IF text.host.form = "colon6" THEN text.host.bytes
    ELSE NoIP

\* net.IP.To4: the 4-byte form, nil when the address has none
To4(ip) ==
    IF Len(ip) = 4 THEN ip
    ELSE IF Len(ip) = 16 /\ SubSeq(ip, 1, 12) = V4InV6Prefix THEN SubSeq(ip, 13, 16)
    ELSE NoIP

\* net.IP.To16
To16(ip) ==
    IF Len(ip) = 4 THEN V4InV6Prefix \o ip
    ELSE IF Len(ip) = 16 THEN ip
    ELSE NoIP

\* net.SplitHostPort: "host:port" or "[host]:port"; an unbracketed host with
\* colons of its own is "too many colons", a missing ":port" is an error
SplitHostPort(text) ==
    IF text.bracket
    THEN IF text.colon
         THEN [ok |-> TRUE, host |-> [text EXCEPT !.bracket = FALSE, !.colon = FALSE, !.port = <<>>],
               port |-> text.port]
         ELSE [ok |-> FALSE, host |-> text, port |-> <<>>]
    ELSE IF text.host.form = "colon6" \/ ~text.colon
         THEN [ok |-> FALSE, host |-> text, port |-> <<>>]
         ELSE [ok |-> TRUE, host |-> [text EXCEPT !.colon = FALSE, !.port = <<>>],
               port |-> text.port]

RECURSIVE Digits(_)
Digits(p) == IF p = <<>> THEN 0 ELSE 10 * Digits(SubSeq(p, 1, Len(p) - 1)) + Last(p)

\* strconv.Atoi
Atoi(p) ==
    IF p = <<>> \/ \E i \in 1..Len(p) : p[i] = NonDigit
    THEN [ok |-> FALSE, n |-> 0]
    ELSE [ok |-> TRUE, n |-> Digits(p)]

Uint16(n) == n % 65536

ParseError == [ok |-> FALSE, ip |-> NoIP, port |-> 0]

splitHostPortTCPUDP(text) ==
    LET hp   == SplitHostPort(text)
        host == IF hp.ok THEN hp.host ELSE text
        port == IF hp.ok THEN hp.port ELSE <<0>>
        ip   == ParseIP(host)
        num  == Atoi(port)
    IN  IF ip = NoIP THEN ParseError
        ELSE IF ~num.ok THEN ParseError
        ELSE [ok |-> TRUE, ip |-> ip, port |-> Uint16(num.n)]

\* url.Parse(value).Host is the text after the scheme
splitHostPortHTTP(text) ==
    LET isHTTPS == text.scheme = "https://"
        isHTTP  == text.scheme = "http://" \/ ~isHTTPS
        r == splitHostPortTCPUDP([text EXCEPT !.scheme = ""])
    IN  IF ~r.ok THEN ParseError
        ELSE IF r.port = 0
             THEN [r EXCEPT !.port = IF isHTTP THEN 80 ELSE 443]
             ELSE r

\* a scheme in a tcp/udp value is part of the host text, which then is no IP
splitHostPort(endpoint) ==
    IF endpoint.Type \in {S("tcp"), S("udp")}
    THEN IF endpoint.Value.scheme # "" THEN ParseError ELSE splitHostPortTCPUDP(endpoint.Value)
    ELSE IF endpoint.Type \in {S("http"), S("https")}
    THEN splitHostPortHTTP(endpoint.Value)
    ELSE ParseError

\* ---------------------------------------------------------------- records
NoTarget == <<>>

createARecord(name, ip) ==
    [Name |-> name, Rrtype |-> "A", Class |-> INET, Ttl |-> 0, Addr |-> ip,
     Port |-> 0, Priority |-> 0, Weight |-> 0, Target |-> NoTarget]

createAAAARecord(name, ip) ==
    [Name |-> name, Rrtype |-> "AAAA", Class |-> INET, Ttl |-> 0, Addr |-> ip,
     Port |-> 0, Priority |-> 0, Weight |-> 0, Target |-> NoTarget]

createSRVRecord(name, port, target) ==
    [Name |-> name, Rrtype |-> "SRV", Class |-> INET, Ttl |-> 0, Addr |-> NoIP,
     Port |-> port, Priority |-> 0, Weight |-> 0, Target |-> target]

\* shuffleRecords: for i := range records { j := rand.Intn(i+1); swap(i, j) }
\* as the set of orders the random choices can produce
Swap(seq, i, j) == [seq EXCEPT ![i] = seq[j], ![j] = seq[i]]

RECURSIVE ShuffleFrom(_, _)
ShuffleFrom(records, i) ==
    IF i > Len(records) THEN {records}
    ELSE UNION {ShuffleFrom(Swap(records, i, j), i + 1) : j \in 1..i}

shuffleRecords(records) == ShuffleFrom(records, 1)

\* ------------------------------------------------------ discovery client
\* client.ServiceInstance: [ID, Service, Tags, Endpoint |-> [Type, Value]]
Host4(a, b, c, d) == [form |-> "dotted4", bytes |-> <<a, b, c, d>>]
Host6(bytes) == [form |-> "colon6", bytes |-> bytes]
HostName == [form |-> "hostname", bytes |-> <<>>]

Text(scheme, bracket, host, colon, port) ==
    [scheme |-> scheme, bracket |-> bracket, host |-> host, colon |-> colon, port |-> port]

WellFormedValue(v) ==
    /\ (~v.colon => v.port = <<>>)
    /\ ~(v.host.form = "colon6" /\ ~v.bracket /\ v.colon)

\* http  192.168.1.10:9080
Inst1 == [ID |-> S("abc123"), Service |-> S("reviews"), Tags |-> {},
          Endpoint |-> [Type |-> S("http"),
                        Value |-> Text("", FALSE, Host4(192, 168, 1, 10), TRUE, <<9, 0, 8, 0>>)]]
\* tcp  [fe80::1]:70000
Inst2 == [ID |-> S("def456"), Service |-> S("reviews"), Tags |-> {S("v2")},
          Endpoint |-> [Type |-> S("tcp"),
                        Value |-> Text("", TRUE, Host6(<<254, 128, 0, 0, 0, 0, 0, 0, 0, 0, 0, 0, 0, 0, 0, 1>>),
                                       TRUE, <<7, 0, 0, 0, 0>>)]]
\* http  https://reviews.internal
Inst3 == [ID |-> S("bad789"), Service |-> S("reviews"), Tags |-> {},
          Endpoint |-> [Type |-> S("http"),
                        Value |-> Text("https://", FALSE, HostName, FALSE, <<>>)]]
\* udp  ::ffff:10.0.0.5
Inst4 == [ID |-> S("fed321"), Service |-> S("reviews"), Tags |-> {S("v2")},
          Endpoint |-> [Type |-> S("udp"),
                        Value |-> Text("", FALSE,
                                       Host6(V4InV6Prefix \o <<10, 0, 0, 5>>), FALSE, <<>>)]]
\* grpc  10.0.0.7:50051
Inst5 == [ID |-> S("cba654"), Service |-> S("reviews"), Tags |-> {S("v2")},
          Endpoint |-> [Type |-> S("grpc"),
                        Value |-> Text("", FALSE, Host4(10, 0, 0, 7), TRUE, <<5, 0, 0, 5, 1>>)]]

Catalogs == { <<Inst1>>, <<Inst1, Inst2, Inst3, Inst4, Inst5>> }

RECURSIVE SeqToSet(_)
SeqToSet(seq) == IF seq = <<>> THEN {} ELSE {Head(seq)} \cup SeqToSet(Tail(seq))

\* client.Discovery.ListInstances(filter): the instances of the named service
\* (of every service for the empty filter) that carry all the filter's tags,
\* in catalog order
ListInstances(cat, filter) ==
    LET Match(inst) == /\ (filter.ServiceName # Empty => inst.Service = filter.ServiceName)
                       /\ SeqToSet(filter.Tags) \subseteq inst.Tags
    IN  SelectSeq(cat, Match)

\* the client hands out its own backing sequence when the filter selects all
\* of it, so that writes through the returned slice reach the catalog
Aliases(cat, filter) == ListInstances(cat, filter) = cat

\* ------------------------------------------------------- catalog gateway
\* dns.Msg.SetRcode as far as the reply's sections go: only Rcode changes
SetRcode(response, rcode) == [response EXCEPT !.Rcode = rcode]

NoInstances == <<>>

\* Split tags and protocol filters (the loop over tagOrProtocol)
RECURSIVE SplitTags(_, _, _, _)
SplitTags(tagOrProtocol, i, protocol, tags) ==
    IF i > Len(tagOrProtocol) THEN [twice |-> FALSE, protocol |-> protocol, tags |-> tags]
    ELSE IF tagOrProtocol[i] \in Protocols
         THEN IF protocol # Empty
              THEN [twice |-> TRUE, protocol |-> protocol, tags |-> tags]
              ELSE SplitTags(tagOrProtocol, i + 1, tagOrProtocol[i], tags)
         ELSE SplitTags(tagOrProtocol, i + 1, protocol, Append(tags, tagOrProtocol[i]))

\* the test of the protocol filter loop
KeepsInstance(serviceInstance, protocol) == serviceInstance.Endpoint.Type = protocol

\* the filter loop that counts the survivors but leaves them where they are
RECURSIVE FilterLoopNoWrite(_, _, _, _)
FilterLoopNoWrite(arr, i, k, protocol) ==
    IF i > Len(arr) THEN [arr |-> arr, k |-> k]
    ELSE IF KeepsInstance(arr[i], protocol)
         THEN FilterLoopNoWrite(arr, i + 1, k + 1, protocol)
         ELSE FilterLoopNoWrite(arr, i + 1, k, protocol)

\* Apply protocol filter: the loop writes the survivors to the front of the
\* slice it ranges over; arr is that slice's backing array, k the write index
RECURSIVE FilterLoop(_, _, _, _)
FilterLoop(arr, i, k, protocol) ==
    IF i > Len(arr) THEN [arr |-> arr, k |-> k]
    ELSE IF KeepsInstance(arr[i], protocol)
         THEN FilterLoop([arr EXCEPT ![k] = arr[i]], i + 1, k + 1, protocol)
         ELSE FilterLoop(arr, i + 1, k, protocol)

\* result of the gateway: err (an error is returned), the instances, the
\* response and the catalog afterwards, listed (what ListInstances returned,
\* one element per call made) and after (the contents of that returned slice
\* when the gateway is done with it)
retrieveInstancesForServiceQuery(serviceName, response, tagOrProtocol, cat, shared, fail) ==
    LET split   == SplitTags(tagOrProtocol, 1, Empty, <<>>)
        filters == [ServiceName |-> serviceName, Tags |-> split.tags]
        listed  == ListInstances(cat, filters)
        loop    == FilterLoop(listed, 1, 1, split.protocol)
    IN  IF split.twice
        THEN [err |-> TRUE, instances |-> NoInstances, cat |-> cat, listed |-> <<>>,
              after |-> <<>>, response |-> SetRcode(response, RcodeFormatError)]
        ELSE IF fail
        THEN [err |-> TRUE, instances |-> NoInstances, cat |-> cat, listed |-> <<>>,
              after |-> <<>>, response |-> SetRcode(response, RcodeServerFailure)]
        ELSE IF split.protocol # Empty
        THEN [err |-> FALSE, instances |-> SubSeq(loop.arr, 1, loop.k - 1),
              cat |-> IF shared /\ Aliases(cat, filters) THEN loop.arr ELSE cat,
              listed |-> <<listed>>, after |-> <<loop.arr>>, response |-> response]
        ELSE [err |-> FALSE, instances |-> listed, cat |-> cat,
              listed |-> <<listed>>, after |-> <<listed>>, response |-> response]

RECURSIVE FindInstance(_, _, _)
FindInstance(serviceInstances, i, instanceID) ==
    IF i > Len(serviceInstances) THEN 0
    ELSE IF serviceInstances[i].ID = instanceID THEN i
    ELSE FindInstance(serviceInstances, i + 1, instanceID)

retrieveInstancesForInstanceQuery(instanceID, response, cat, fail) ==
    LET listed == ListInstances(cat, [ServiceName |-> Empty, Tags |-> <<>>])
        at     == FindInstance(listed, 1, instanceID)
    IN  IF fail
        THEN [err |-> TRUE, instances |-> NoInstances, cat |-> cat, listed |-> <<>>,
              after |-> <<>>, response |-> SetRcode(response, RcodeServerFailure)]
        ELSE IF at # 0
        THEN [err |-> FALSE, instances |-> <<listed[at]>>, cat |-> cat,
              listed |-> <<listed>>, after |-> <<listed>>, response |-> response]
        ELSE [err |-> TRUE, instances |-> NoInstances, cat |-> cat, listed |-> <<listed>>,
              after |-> <<listed>>, response |-> SetRcode(response, RcodeNameError)]

\* ----------------------------------------------------------- name parser
\* the conditions of the branches of retrieveServices; labels is
\* fullDomainRequestArray, n is numberOfLabels
IsServiceQuery(labels, n) == labels[n - 1] = S("service")

IsSRVShorthand(labels, n, qtype) ==
    /\ qtype = TypeSRV
    /\ n = 4
    /\ HasPrefix(labels[1])
    /\ HasPrefix(labels[2])

\* the instance branch without its test of the question type
IsInstanceQueryAnyType(labels, n, qtype) ==
    /\ labels[n - 1] = S("instance")
    /\ n = 3

IsInstanceQuery(labels, n, qtype) ==
    /\ labels[n - 1] = S("instance")
    /\ qtype \in {TypeA, TypeAAAA}
    /\ n = 3

\* panic: the index numberOfLabels-2 is outside fullDomainRequestArray
retrieveServices(question, response, cat, shared, fail) ==
    LET valid  == IsDomainName(question.Name)
        n      == valid.labels
        labels == SplitDomainName(question.Name)
        none   == [panic |-> FALSE, kind |-> "none", err |-> FALSE, instances |-> NoInstances,
                   cat |-> cat, listed |-> <<>>, after |-> <<>>, response |-> response]
    IN  IF ~valid.ok
        THEN [none EXCEPT !.err = TRUE, !.response = SetRcode(response, RcodeFormatError)]
        ELSE IF Len(labels) = 1 \/ Len(labels) = 2
        THEN [none EXCEPT !.err = TRUE, !.response = SetRcode(response, RcodeNameError)]
        ELSE IF n - 1 < 1 \/ n - 1 > Len(labels)
        THEN [none EXCEPT !.panic = TRUE]
        ELSE IF IsServiceQuery(labels, n)
        THEN IF IsSRVShorthand(labels, n, question.Qtype)
             THEN [panic |-> FALSE, kind |-> "shorthand"] @@
                  retrieveInstancesForServiceQuery(TrimFirst(labels[1]), response,
                                                   <<TrimFirst(labels[2])>>, cat, shared, fail)
             ELSE [panic |-> FALSE, kind |-> "service"] @@
                  retrieveInstancesForServiceQuery(labels[n - 2], response,
                                                   SubSeq(labels, 1, n - 3), cat, shared, fail)
        ELSE IF IsInstanceQuery(labels, n, question.Qtype)
        THEN [panic |-> FALSE, kind |-> "instance"] @@
             retrieveInstancesForInstanceQuery(labels[1], response, cat, fail)
        ELSE none

\* ----------------------------------------------------- record synthesizer
\* fmt.Sprintf("%s.instance.%s.", serviceInstance.ID, s.config.Domain)
SRVTarget(instanceID, domain) == <<instanceID, Dot, S("instance"), Dot>> \o domain \o <<Dot>>

\* the extra record of an SRV answer that is left out for IPv6 addresses
ExtraRecordV4Only(name, ip) ==
    IF To4(ip) # NoIP THEN <<createARecord(name, To4(ip))>> ELSE <<>>

\* the address record that accompanies an SRV answer
ExtraRecord(name, ip) ==
    IF To4(ip) # NoIP THEN <<createARecord(name, To4(ip))>>
    ELSE <<createAAAARecord(name, To16(ip))>>

\* the body of the loop over serviceInstances, for one instance: the records
\* it appends to answer and to extra
RecordsForInstance(question, serviceInstance, domain) ==
    LET r   == splitHostPort(serviceInstance.Endpoint)
        ip4 == To4(r.ip)
    IN  IF ~r.ok THEN [answer |-> <<>>, extra |-> <<>>]
        ELSE IF question.Qtype = TypeA
        THEN [answer |-> IF ip4 # NoIP THEN <<createARecord(question.Name, ip4)>> ELSE <<>>,
              extra |-> <<>>]
        ELSE IF question.Qtype = TypeAAAA
        THEN [answer |-> IF ip4 = NoIP THEN <<createARecord(question.Name, To16(r.ip))>> ELSE <<>>,
              extra |-> <<>>]
        ELSE IF question.Qtype = TypeSRV
        THEN [answer |-> <<createSRVRecord(question.Name, r.port,
                                           SRVTarget(serviceInstance.ID, domain))>>,
              extra |-> ExtraRecord(question.Name, r.ip)]
        ELSE [answer |-> <<>>, extra |-> <<>>]

RECURSIVE CollectRecords(_, _, _, _)
CollectRecords(question, serviceInstances, i, domain) ==
    IF i > Len(serviceInstances) THEN [answer |-> <<>>, extra |-> <<>>]
    ELSE LET one  == RecordsForInstance(question, serviceInstances[i], domain)
             rest == CollectRecords(question, serviceInstances, i + 1, domain)
         IN  [answer |-> one.answer \o rest.answer, extra |-> one.extra \o rest.extra]

\* an empty answer reported as a failure of the server
EmptyAnswerServerFailure == RcodeServerFailure

\* the response code when no answer record was produced
EmptyAnswerRcode == RcodeNameError

\* the possible results, one per outcome of the two shuffles; answer and
\* extra are the records appended to the response (none when answer is empty)
createRecordsForInstances(question, response, serviceInstances, domain) ==
    LET recs == CollectRecords(question, serviceInstances, 1, domain)
    IN  IF Len(recs.answer) = 0
        THEN {[response |-> SetRcode(response, EmptyAnswerRcode), answer |-> <<>>, extra |-> <<>>]}
        ELSE {[response |-> SetRcode([response EXCEPT !.Answer = @ \o answer,
                                                       !.Extra = @ \o extra], RcodeSuccess),
               answer |-> answer, extra |-> extra] :
                 answer \in shuffleRecords(recs.answer), extra \in shuffleRecords(recs.extra)}

\* ------------------------------------------------------ response assembler
\* the class switch accepting every class
SupportedClassAny(qclass) == TRUE

SupportedClass(qclass) == qclass = INET
SupportedType(qtype) == qtype \in {TypeA, TypeAAAA, TypeSRV}

\* what handling one question did: stage is where it ended ("class", "type",
\* "retrieve", "synthesize" or "panic"), err whether handleQuestion returned
\* an error, rcode the response code afterwards
Entry(question, stage, err, response, kind, listed, after, instances, answer, extra) ==
    [question |-> question, stage |-> stage, err |-> err, rcode |-> response.Rcode,
     kind |-> kind, listed |-> listed, after |-> after, instances |-> instances,
     answer |-> answer, extra |-> extra]

handleQuestion(question, response, cat, shared, fail, domain) ==
    IF ~SupportedClass(question.Qclass)
    THEN LET resp == SetRcode(response, RcodeServerFailure)
         IN  {[panic |-> FALSE, err |-> TRUE, response |-> resp, cat |-> cat,
               entry |-> Entry(question, "class", TRUE, resp, "none", <<>>, <<>>, NoInstances, <<>>, <<>>)]}
    ELSE IF ~SupportedType(question.Qtype)
    THEN LET resp == SetRcode(response, RcodeServerFailure)
         IN  {[panic |-> FALSE, err |-> TRUE, response |-> resp, cat |-> cat,
               entry |-> Entry(question, "type", TRUE, resp, "none", <<>>, <<>>, NoInstances, <<>>, <<>>)]}
    ELSE LET got == retrieveServices(question, response, cat, shared, fail)
         IN  IF got.panic
             THEN {[panic |-> TRUE, err |-> FALSE, response |-> response, cat |-> cat,
                    entry |-> Entry(question, "panic", FALSE, response, got.kind, <<>>,
                                    <<>>, NoInstances, <<>>, <<>>)]}
             ELSE IF got.err
             THEN {[panic |-> FALSE, err |-> TRUE, response |-> got.response, cat |-> got.cat,
                    entry |-> Entry(question, "retrieve", TRUE, got.response, got.kind,
                                    got.listed, got.after, got.instances, <<>>, <<>>)]}
             ELSE {[panic |-> FALSE, err |-> FALSE, response |-> made.response, cat |-> got.cat,
                    entry |-> Entry(question, "synthesize", FALSE, made.response, got.kind,
                                    got.listed, got.after, got.instances, made.answer,
                                    made.extra)] :
                      made \in createRecordsForInstances(question, got.response,
                                                         got.instances, domain)}

\* ------------------------------------------------------------- the server
VARIABLES domain, shared, catalog, pc, request, response, qi, log, replies

vars == <<domain, shared, catalog, pc, request, response, qi, log, replies>>

\* the Domain values of Config: "local", "example.com." and ""
ConfiguredDomains == { <<S("local")>>, <<S("example"), Dot, S("com"), Dot>>, <<>> }

\* validate: config.Domain = dns.Fqdn(config.Domain)
validate(configured) == Fqdn(configured)

RECURSIVE Join(_)
Join(labels) == IF labels = <<>> THEN <<>> ELSE <<Head(labels), Dot>> \o Join(Tail(labels))

\* the name made of the labels in front of the served domain; the mux hands
\* handleRequest only names under config.Domain
Under(labels, d) ==
    IF labels = <<>> THEN d
    ELSE IF d = <<Dot>> THEN Join(labels)
    ELSE Join(labels) \o d

Question(labels, qtype, qclass, d) ==
    [Name |-> Under(labels, d), Qtype |-> qtype, Qclass |-> qclass]

Questions(d) ==
    { Question(<<U("reviews"), U("http")>>, TypeSRV, INET, d),
      Question(<<U("reviews"), U("http"), S("service")>>, TypeSRV, INET, d),
      Question(<<S("reviews"), S("service")>>, TypeA, INET, d),
      Question(<<S("reviews"), S("service")>>, TypeAAAA, INET, d),
      Question(<<S("v2"), S("reviews"), S("service")>>, TypeSRV, INET, d),
      Question(<<S("reviews"), S("service")>>, TypeMX, INET, d),
      Question(<<S("reviews"), S("service")>>, TypeA, CHAOS, d),
      Question(<<S("http"), S("reviews"), S("service")>>, TypeAAAA, INET, d),
      Question(<<S("tcp"), S("udp"), S("reviews"), S("service")>>, TypeA, INET, d),
      Question(<<S("abc123"), S("instance")>>, TypeA, INET, d),
      Question(<<S("abc123"), S("instance")>>, TypeSRV, INET, d),
      Question(<<S("nobody"), S("instance")>>, TypeA, INET, d),
      Question(<<>>, TypeA, INET, d),
      [Name |-> <<S("reviews"), Dot, Dot>> \o d, Qtype |-> TypeA, Qclass |-> INET] }

RECURSIVE SeqsUpTo(_, _)
SeqsUpTo(set, n) ==
    IF n = 0 THEN {<<>>}
    ELSE LET shorter == SeqsUpTo(set, n - 1)
         IN  shorter \cup {Append(q, x) : q \in shorter, x \in set}

\* an EDNS0 OPT record of the inbound request's Extra section
OPT == [Name |-> <<Dot>>, Rrtype |-> "OPT", Class |-> "4096", Ttl |-> 0, Addr |-> NoIP,
        Port |-> 0, Priority |-> 0, Weight |-> 0, Target |-> NoTarget]

Requests(d) ==
    [Question : SeqsUpTo(Questions(d), MaxQuestions), Extra : {<<>>, <<OPT>>}]

NoRequest == [Question |-> <<>>, Extra |-> <<>>]
NoResponse == [Rcode |-> RcodeSuccess, Answer |-> <<>>, Extra |-> <<>>,
               Authoritative |-> FALSE, RecursionAvailable |-> FALSE]

Init ==
    /\ domain \in {validate(c) : c \in ConfiguredDomains}
    /\ shared \in BOOLEAN
    /\ catalog \in Catalogs
    /\ pc = "idle"
    /\ request = NoRequest
    /\ response = NoResponse
    /\ qi = 1
    /\ log = <<>>
    /\ replies = <<>>

\* handleRequest up to the loop over the questions
Receive(req) ==
    /\ pc = "idle"
    /\ request' = req
    /\ response' = [Rcode |-> RcodeSuccess, Answer |-> <<>>, Extra |-> req.Extra,
                    Authoritative |-> TRUE, RecursionAvailable |-> FALSE]
    /\ qi' = 1
    /\ pc' = IF req.Question = <<>> THEN "write" ELSE "loop"
    /\ UNCHANGED <<domain, shared, catalog, log, replies>>

\* one iteration of the loop: handleQuestion on question qi, break on error
HandleQuestion(fail) ==
    /\ pc = "loop"
    /\ \E out \in handleQuestion(request.Question[qi], response, catalog, shared, fail, domain) :
         /\ response' = out.response
         /\ catalog' = out.cat
         /\ log' = Append(log, out.entry)
         /\ qi' = qi + 1
         /\ pc' = IF out.panic THEN "crashed"
                  ELSE IF out.err \/ qi = Len(request.Question) THEN "write"
                  ELSE "loop"
    /\ UNCHANGED <<domain, shared, request, replies>>

\* w.WriteMsg(response)
WriteMsg ==
    /\ pc = "write"
    /\ replies' = Append(replies, response)
    /\ pc' = "done"
    /\ UNCHANGED <<domain, shared, catalog, request, response, qi, log>>

\* handleRequest returns: the request and its response are dropped
Return ==
    /\ pc = "done"
    /\ pc' = "idle"
    /\ request' = NoRequest
    /\ response' = NoResponse
    /\ qi' = 1
    /\ log' = <<>>
    /\ replies' = <<>>
    /\ UNCHANGED <<domain, shared, catalog>>

Next ==
    \/ (pc = "idle" /\ \E req \in Requests(domain) : Receive(req))
    \/ (pc = "loop" /\ \E fail \in BOOLEAN : HandleQuestion(fail))
    \/ WriteMsg
    \/ Return

Spec == Init /\ [][Next]_vars

\* the handler goroutine runs to completion once started
FairSpec == Spec /\ WF_vars(\E fail \in BOOLEAN : HandleQuestion(fail)) /\ WF_vars(WriteMsg)

\* ================================================================ claims
Handled == {log[i] : i \in 1..Len(log)}
Replied == pc = "done" /\ Len(replies) = 1
Reply == replies[1]
Parsable(serviceInstance) == splitHostPort(serviceInstance.Endpoint).ok
Count(seq, Test(_)) == Len(SelectSeq(seq, Test))
LabelsOf(question) == SplitDomainName(question.Name)

\* the name is  _<service>._<tagOrProto>.D  for the served domain D
IsShorthandName(question) ==
    \E a, b \in SeqToSet(LabelsOf(question)) :
        /\ HasPrefix(a) /\ HasPrefix(b)
        /\ question.Name = Under(<<a, b>>, domain)

\* C1: an SRV question named _<service>._<tagOrProto>.D is handled as the SRV
\* shorthand: the catalog is queried for <service> with <tagOrProto> as its
\* only token, and when the lookup succeeds every instance of that protocol
\* with a parsable endpoint yields one SRV answer and one extra address
\* record, with response code success.
C1_ShorthandUnderDomain ==
    \A e \in Handled :
        (e.question.Qtype = TypeSRV /\ e.question.Qclass = INET /\ IsShorthandName(e.question))
        => /\ e.kind = "shorthand"
           /\ e.stage = "synthesize" =>
                LET proto == TrimFirst(LabelsOf(e.question)[2])
                    Hit(x) == x.Endpoint.Type = proto /\ Parsable(x)
                IN  /\ Len(e.listed) = 1
                    /\ Count(e.listed[1], Hit) > 0 =>
                         /\ e.rcode = RcodeSuccess
                         /\ Len(e.answer) = Count(e.listed[1], Hit)
                         /\ Len(e.extra) = Count(e.listed[1], Hit)

\* C2: the first question that sets a failure response code, at whatever
\* stage, is the last question handled, and the reply written carries the
\* code that question set.
C2_FirstFailureEndsProcessing ==
    \A i \in 1..Len(log) :
        log[i].rcode # RcodeSuccess
        => /\ i = Len(log)
           /\ Replied => Reply.Rcode = log[i].rcode

IsPrefixOf(a, b) == Len(a) <= Len(b) /\ SubSeq(b, 1, Len(a)) = a

\* C3: every request handed to handleRequest ends with exactly one reply
\* written, which is authoritative, offers no recursion and whose Extra
\* section begins with the request's Extra records.
C3_OneReplyPerRequest ==
    /\ Len(replies) <= 1
    /\ pc \in {"done", "crashed"} =>
         /\ Len(replies) = 1
         /\ Reply.Authoritative
         /\ ~Reply.RecursionAvailable
         /\ IsPrefixOf(request.Extra, Reply.Extra)

\* C4 (as claimed): a question whose class is not INET is answered with
\* response code format error.
C4_ClassFormatError ==
    \A e \in Handled : e.question.Qclass # INET => e.rcode = RcodeFormatError

\* C4: a question whose class is not INET is refused with response code
\* server failure; it ends the request, no catalog lookup is made and no
\* records are synthesized for it.
C4_ClassServerFailure ==
    \A e \in Handled :
        e.question.Qclass # INET
        => /\ e.rcode = RcodeServerFailure
           /\ e.err
           /\ e.listed = <<>>
           /\ e.answer = <<>> /\ e.extra = <<>>
           /\ e = Last(log)
           /\ Replied => Reply.Rcode = RcodeServerFailure

C4_Witness ==
    /\ Replied
    /\ \E e \in Handled : e.question.Qclass # INET
    /\ Reply.Rcode = RcodeServerFailure

\* <instance-id>.instance.<domain>, exactly 3 labels, asked as SRV
IsSRVInstanceQuestion(question) ==
    /\ question.Qclass = INET
    /\ question.Qtype = TypeSRV
    /\ IsDomainName(question.Name).ok
    /\ Len(LabelsOf(question)) = 3
    /\ LabelsOf(question)[2] = S("instance")

KnownInstance(question) == \E i \in 1..Len(catalog) : catalog[i].ID = LabelsOf(question)[1]

\* C5 (as claimed): an instance query asked with type SRV is rejected and the
\* reply's response code is server failure.
C5_SRVInstanceServerFailure ==
    (Replied /\ Len(request.Question) = 1 /\ IsSRVInstanceQuestion(request.Question[1]))
    => Reply.Rcode = RcodeServerFailure

\* C5: an instance query asked with type SRV is not rejected with an error:
\* no catalog lookup is made, it resolves to no instance and yields no
\* records, and the question sets response code name error, which is the
\* reply's code when it is the last question handled; this is so whether or
\* not an instance with that ID exists.
C5_SRVInstanceNameError ==
    \A i \in 1..Len(log) :
        IsSRVInstanceQuestion(log[i].question)
        => /\ log[i].stage = "synthesize"
           /\ ~log[i].err
           /\ log[i].listed = <<>>
           /\ log[i].instances = NoInstances
           /\ log[i].answer = <<>> /\ log[i].extra = <<>>
           /\ log[i].rcode = RcodeNameError
           /\ (Replied /\ i = Len(request.Question)) => Reply.Rcode = RcodeNameError

C5_Witness ==
    /\ Replied
    /\ Len(request.Question) = 1
    /\ IsSRVInstanceQuestion(request.Question[1])
    /\ KnownInstance(request.Question[1])
    /\ Reply.Rcode = RcodeNameError

Synthesized(reply) ==
    SeqToSet(reply.Answer) \cup SeqToSet(SubSeq(reply.Extra, Len(request.Extra) + 1, Len(reply.Extra)))

\* C6: in every reply every synthesized A record carries an address with a
\* 4-byte form and every synthesized AAAA record an address without one.
C6_AddressFamilyMatchesType ==
    Replied =>
        \A rr \in Synthesized(Reply) :
            /\ rr.Rrtype = "A" => To4(rr.Addr) # NoIP
            /\ rr.Rrtype = "AAAA" => (rr.Addr # NoIP /\ To4(rr.Addr) = NoIP)

\* an SRV service query that reached record synthesis with resolved instances
IsResolvedSRV(e) ==
    /\ e.question.Qtype = TypeSRV
    /\ e.kind \in {"service", "shorthand"}
    /\ e.stage = "synthesize"

IsAddressRecord(rr) == rr.Rrtype \in {"A", "AAAA"}

\* C7 (as claimed): an SRV service query for which the gateway resolves N
\* instances puts exactly N SRV answer records and N extra address records in
\* the reply.
C7_OneRecordPerInstance ==
    \A e \in Handled :
        IsResolvedSRV(e)
        => /\ Len(e.answer) = Len(e.instances)
           /\ Len(e.extra) = Len(e.instances)

\* C7: an SRV service query that reaches record synthesis with N resolved
\* instances, M of which have a parsable endpoint, adds exactly M SRV answer
\* records and exactly M extra address records to the reply, one of each per
\* instance with a parsable endpoint.
C7_OneRecordPerParsableInstance ==
    \A e \in Handled :
        IsResolvedSRV(e)
        => /\ Len(e.answer) = Count(e.instances, Parsable)
           /\ Len(e.extra) = Count(e.instances, Parsable)
           /\ \A rr \in SeqToSet(e.answer) : rr.Rrtype = "SRV"
           /\ \A rr \in SeqToSet(e.extra) : IsAddressRecord(rr)
           /\ \A x \in SeqToSet(e.instances) :
                LET IsX(y) == y = x
                    ForX(rr) == rr.Target = SRVTarget(x.ID, domain)
                                /\ rr.Port = splitHostPort(x.Endpoint).port
                    AddrX(rr) == To16(rr.Addr) = splitHostPort(x.Endpoint).ip
                IN  Parsable(x) =>
                      /\ Count(e.answer, ForX) = Count(e.instances, IsX)
                      /\ Count(e.extra, AddrX) = Count(e.instances, IsX)
           /\ (Replied /\ e = Last(log) /\ e.answer # <<>>)
              => /\ SubSeq(Reply.Answer, Len(Reply.Answer) - Len(e.answer) + 1, Len(Reply.Answer)) = e.answer
                 /\ SubSeq(Reply.Extra, Len(Reply.Extra) - Len(e.extra) + 1, Len(Reply.Extra)) = e.extra

C7_Witness ==
    /\ Replied
    /\ \E e \in Handled :
         /\ IsResolvedSRV(e)
         /\ Count(e.instances, Parsable) < Len(e.instances)
         /\ Len(e.answer) >= 2
         /\ \E rr \in SeqToSet(e.extra) : rr.Rrtype = "AAAA"

\* C8: every synthesized SRV record has Priority = Weight = 0 and the Target
\* "<instanceID>.instance.<domain>." of an instance of the catalog, a valid
\* instance-query name under the served domain with one trailing dot.
C8_TargetIsInstanceName ==
    \A e \in Handled : \A rr \in SeqToSet(e.answer) :
        rr.Rrtype = "SRV"
        => /\ rr.Priority = 0 /\ rr.Weight = 0
           /\ \E x \in SeqToSet(e.instances) : rr.Target = Under(<<x.ID, S("instance")>>, domain)
           /\ IsDomainName(rr.Target).ok

\* the protocol tokens among the tag-or-protocol labels of a service query
FilterTokens(e) ==
    IF e.kind = "shorthand" THEN <<TrimFirst(LabelsOf(e.question)[2])>>
    ELSE SubSeq(LabelsOf(e.question), 1, Len(LabelsOf(e.question)) - 3)

IsProtocol(token) == token \in Protocols

\* C9: for a service query whose catalog lookup succeeded, the resolved
\* instances are exactly the subsequence of the catalog's result whose
\* endpoint type is the query's protocol filter, in the same order; an empty
\* result is no error; without a protocol filter the result is the catalog's.
C9_StableProtocolFilter ==
    \A e \in Handled :
        (e.kind \in {"service", "shorthand"} /\ e.listed # <<>>)
        => LET protos == SelectSeq(FilterTokens(e), IsProtocol)
               HasType(x) == x.Endpoint.Type = protos[1]
           IN  /\ ~e.err
               /\ e.stage = "synthesize"
               /\ Len(protos) = 1 => e.instances = SelectSeq(e.listed[1], HasType)
               /\ Len(protos) = 0 => e.instances = e.listed[1]

C9_Witness ==
    \E e \in Handled :
        /\ e.kind = "service" /\ e.listed # <<>>
        /\ Len(SelectSeq(FilterTokens(e), IsProtocol)) = 1
        /\ Len(e.instances) >= 2
        /\ \E i, j, k \in 1..Len(e.listed[1]) :
             /\ i < j /\ j < k
             /\ e.listed[1][i] \in SeqToSet(e.instances)
             /\ e.listed[1][j] \notin SeqToSet(e.instances)
             /\ e.listed[1][k] \in SeqToSet(e.instances)

\* the instance is not skipped for the question type: its endpoint parses and
\* its address family is the one asked for
Answers(qtype, x) ==
    /\ Parsable(x)
    /\ qtype = TypeA => To4(splitHostPort(x.Endpoint).ip) # NoIP
    /\ qtype = TypeAAAA => To4(splitHostPort(x.Endpoint).ip) = NoIP

\* C10: in the reply to a single-question request whose catalog lookup
\* succeeded the response code is never server failure; it is name error with
\* no answer record when every resolved instance was skipped, and success
\* with one answer record per instance not skipped otherwise.
C10_SkippedInstancesOnly ==
    (Replied /\ Len(request.Question) = 1 /\ log[1].listed # <<>>)
    => LET e == log[1]
           Kept(x) == Answers(e.question.Qtype, x)
           n == Count(e.instances, Kept)
       IN  /\ Reply.Rcode # RcodeServerFailure
           /\ Len(Reply.Answer) = n
           /\ n = 0 => Reply.Rcode = RcodeNameError
           /\ n > 0 => Reply.Rcode = RcodeSuccess

C10_Witness ==
    /\ Replied /\ Len(request.Question) = 1 /\ log[1].listed # <<>>
    /\ Len(log[1].instances) >= 2
    /\ \A i \in 1..Len(log[1].instances) : ~Answers(log[1].question.Qtype, log[1].instances[i])
    /\ \E i \in 1..Len(log[1].instances) : ~Parsable(log[1].instances[i])
    /\ Reply.Rcode = RcodeNameError

\* C11: in the reply to a request with at least one question the response
\* code is success if and only if the Answer section holds at least one
\* synthesized record: a reply with a failure code carries no answer left
\* over from an earlier question, and no later question turns an earlier
\* failure code into success.
C11_RcodeMatchesAnswer ==
    (Replied /\ Len(request.Question) >= 1)
    => (Reply.Rcode = RcodeSuccess <=> Reply.Answer # <<>>)

\* C12: resolving a service query, with or without a protocol filter, leaves
\* the sequence that ListInstances returned unchanged, the same elements at
\* the same positions, so that the catalog behind a discovery client that
\* hands out its own sequence stays as it was for the requests that follow.
C12_ListedSequenceUnchanged ==
    /\ \A e \in Handled :
         (e.kind \in {"service", "shorthand"} /\ e.listed # <<>>) => e.after = e.listed
    /\ catalog \in Catalogs

====
